---- MODULE Spec2Model ----
(***************************************************************************)
(* Model of the Stripe fulfillment service: the users table (models.py),   *)
(* the three fulfillment variants (fullfillment.py, main.py,               *)
(* webhook-handler.py), the two webhook endpoints with their invoice       *)
(* handlers, and the payment-link endpoint (payment-link.py).              *)
(*                                                                         *)
(* Python strings that the code parses (cartID, user_id) are sequences of  *)
(* one-character strings; a dict is a function from its keys; a loaded ORM  *)
(* instance is a function from attribute names to values.                  *)
(***************************************************************************)
EXTENDS Integers, Sequences, FiniteSets, Bags, TLC

\* Users 1..MaxUser may have a row in the users table; MaxUser+1 never has.
MaxUser == 1

\* Background tasks of main.py that may be pending at once.
MaxTasks == 1

\* Users 1..MaxLinkUser have a row where a payment link is followed to its
\* fulfillment; the ids reach beyond one decimal digit.
MaxLinkUser == 12

\* Deliveries of one event that may meet a transient provider or store
\* failure before the failures cease.
MaxFailures == 3

---------------------------------------------------------------------------
(* Python builtins used by the handlers                                    *)

Digits == <<"0", "1", "2", "3", "4", "5", "6", "7", "8", "9">>

IsDigit(c) == \E i \in 1..Len(Digits) : Digits[i] = c

DigitVal(c) == (CHOOSE i \in 1..Len(Digits) : Digits[i] = c) - 1

IsSpace(c) == c = " "

RECURSIVE LStrip(_)
LStrip(s) == IF s # <<>> /\ IsSpace(Head(s)) THEN LStrip(Tail(s)) ELSE s

RECURSIVE RStrip(_)
RStrip(s) ==
    IF s # <<>> /\ IsSpace(s[Len(s)]) THEN RStrip(SubSeq(s, 1, Len(s) - 1)) ELSE s

RECURSIVE DecimalValue(_)
DecimalValue(s) ==
    IF s = <<>> THEN 0
    ELSE 10 * DecimalValue(SubSeq(s, 1, Len(s) - 1)) + DigitVal(s[Len(s)])

\* int(s): surrounding whitespace is ignored, one sign is allowed, the rest
\* must be a non-empty run of decimal digits; anything else is a ValueError.
PyInt(s) ==
    LET t == RStrip(LStrip(s))
        signed == t # <<>> /\ Head(t) \in {"+", "-"}
        body == IF signed THEN Tail(t) ELSE t
        sign == IF signed /\ Head(t) = "-" THEN -1 ELSE 1
    IN  IF body # <<>> /\ \A i \in 1..Len(body) : IsDigit(body[i])
        THEN [ok |-> TRUE, val |-> sign * DecimalValue(body)]
        ELSE [ok |-> FALSE, val |-> 0]

\* A faulty str() that writes the low digit first.
RECURSIVE PyStrNat_LowDigitFirst(_)
PyStrNat_LowDigitFirst(n) ==
    IF n < 10 THEN <<Digits[n + 1]>>
    ELSE <<Digits[(n % 10) + 1]>> \o PyStrNat_LowDigitFirst(n \div 10)

RECURSIVE PyStrNat(_)
PyStrNat(n) ==
    IF n < 10 THEN <<Digits[n + 1]>>
    ELSE Append(PyStrNat(n \div 10), Digits[(n % 10) + 1])

\* str(n) of an integer
PyStr(n) == IF n < 0 THEN <<"-">> \o PyStrNat(-n) ELSE PyStrNat(n)

\* d.get(k) is truthy: the key is present and its string is not empty
Truthy(d, k) == k \in DOMAIN d /\ d[k] # <<>>

---------------------------------------------------------------------------
(* The users table and the ORM session                                     *)

UserIds == 1..MaxUser

\* A freshly inserted row: has_access takes its column default.
\* The unique columns are stood for by the id; referrer_id 0 is NULL.
NewUser(u) ==
    [id |-> u, email |-> u, hashed_password |-> u, name |-> u,
     referral_code |-> u, referrer_id |-> 0, has_access |-> FALSE]

\* The mapped columns of User: what a flush writes back.
MappedColumns ==
    {"id", "email", "hashed_password", "name", "referral_code",
     "referrer_id", "has_access"}

\* db.query(User).filter(User.id == id).first(): the set of at most one row
QueryFirst(table, id) == IF id \in DOMAIN table THEN {table[id]} ELSE {}

\* obj.attr = val on a loaded instance; any attribute name is accepted
SetAttr(obj, attr, val) ==
    [a \in DOMAIN obj \cup {attr} |-> IF a = attr THEN val ELSE obj[a]]

\* A faulty commit whose UPDATE has no WHERE clause: the instance's flag is
\* written to every row.
Commit_EveryRow(table, obj) ==
    [u \in DOMAIN table |-> [table[u] EXCEPT !["has_access"] = obj["has_access"]]]

\* db.commit(): the instance's mapped columns are written to its row;
\* attributes that are not columns of the model are not persisted.
Commit(table, obj) ==
    [table EXCEPT ![obj["id"]] = [c \in MappedColumns |-> obj[c]]]

---------------------------------------------------------------------------
(* The provider's objects                                                  *)

EmptyDict == [k \in {} |-> <<>>]

Dict(k, v) == [x \in {k} |-> v]

\* The strings a correlation key may hold: the decimal form of every id up
\* to the first id that has no row, a padded form, and strings int() rejects.
KeyStrings ==
    {PyStr(u) : u \in 1..(MaxUser + 1)} \cup {<<" ", "1">>, <<"a">>, <<>>}

PaymentStatuses == {"paid", "unpaid"}

CheckoutSessions ==
    {[id |-> "cs_1", payment_status |-> p, metadata |-> m] :
        p \in PaymentStatuses,
        m \in {EmptyDict} \cup {Dict("cartID", s) : s \in KeyStrings}}

\* The strings an invoice's user_id may hold: the decimal form of every id
\* up to the first id that has no row, and a string int() rejects.
InvoiceKeyStrings == {PyStr(u) : u \in 1..(MaxUser + 1)} \cup {<<"a">>}

Invoices ==
    {[id |-> "in_1", subscription |-> "sub_1", metadata |-> m] :
        m \in {EmptyDict} \cup {Dict("user_id", s) : s \in InvoiceKeyStrings}}

NoSession == [id |-> "", payment_status |-> "", metadata |-> EmptyDict]

NoInvoice == [id |-> "", subscription |-> "", metadata |-> EmptyDict]

\* Where a call may raise: the provider's Session.retrieve, the store's
\* query, the store's commit.
StoreFaults == {"none", "query", "commit"}

\* The cartID of the payment link of every user id that may ask for one
LinkKeyStrings == {PyStr(u) : u \in 1..(MaxLinkUser + 1)}

\* int() of every string the provider's objects may hold, computed once
IntOf == [s \in KeyStrings \cup InvoiceKeyStrings \cup LinkKeyStrings |-> PyInt(s)]

\* The handlers reach the store only with a key that int() accepts.
ReachesStore(d, k) == Truthy(d, k) /\ IntOf[d[k]].ok

\* What a fulfillment call meets: a failing retrieval, or the session the
\* provider returns for the id and, where the call reaches the store, a
\* store fault.
FulfillInputs ==
    {<<NoSession, "retrieve">>}
    \cup {<<s, "none">> : s \in CheckoutSessions}
    \cup {<<s, f>> :
            s \in {x \in CheckoutSessions :
                      x.payment_status = "paid" /\ ReachesStore(x.metadata, "cartID")},
            f \in StoreFaults}

\* The store faults a handler of the invoice may meet.
InvoiceFaults(invoice) ==
    IF ReachesStore(invoice.metadata, "user_id") THEN StoreFaults ELSE {"none"}

---------------------------------------------------------------------------
(* Outcome of one handler call                                             *)

\* table: the users table afterwards; result: the Python return value;
\* raised: an exception left the function; fault: the failure that occurred;
\* db: the calls made on the store session, in order.
Outcome(table, result, raised, fault, db) ==
    [table |-> table, result |-> result, raised |-> raised,
     fault |-> fault, db |-> db]

\* A faulty fulfill_service that does not look at the payment status.
FulfillService_NoPaidCheck(sess, fault, table) ==
    IF fault = "retrieve"
    THEN Outcome(table, "False", FALSE, "retrieve", <<>>)
    ELSE IF ~ReachesStore(sess.metadata, "cartID")
    THEN Outcome(table, "False", FALSE, "none", <<>>)
    ELSE IF fault = "query"
    THEN Outcome(table, "False", FALSE, "query", <<"query">>)
    ELSE LET found == QueryFirst(table, IntOf[sess.metadata["cartID"]].val)
         IN  IF found = {}
             THEN Outcome(table, "False", FALSE, "none", <<"query">>)
             ELSE LET user == CHOOSE r \in found : TRUE
                  IN  IF ~user["has_access"] /\ fault # "commit"
                      THEN Outcome(
                               Commit(table, SetAttr(user, "has_access", TRUE)),
                               "True", FALSE, "none", <<"query", "commit">>)
                      ELSE Outcome(table, "True", FALSE, "none", <<"query">>)

\* A faulty fulfill_service that flips the flag instead of setting it.
FulfillService_Toggle(sess, fault, table) ==
    IF fault = "retrieve" \/ sess.payment_status # "paid"
    THEN Outcome(table, "False", FALSE, "none", <<>>)
    ELSE IF ~ReachesStore(sess.metadata, "cartID")
    THEN Outcome(table, "False", FALSE, "none", <<>>)
    ELSE IF fault = "query"
    THEN Outcome(table, "False", FALSE, "query", <<"query">>)
    ELSE LET found == QueryFirst(table, IntOf[sess.metadata["cartID"]].val)
         IN  IF found = {}
             THEN Outcome(table, "False", FALSE, "none", <<"query">>)
             ELSE LET user == CHOOSE r \in found : TRUE
                  IN  IF fault = "commit"
                      THEN Outcome(table, "False", FALSE, "commit",
                                   <<"query", "commit">>)
                      ELSE Outcome(
                               Commit(table,
                                      SetAttr(user, "has_access",
                                              ~user["has_access"])),
                               "True", FALSE, "none", <<"query", "commit">>)

\* fullfillment.py: fulfill_service(session_id, db)
FulfillService(sess, fault, table) ==
    IF fault = "retrieve"
    THEN Outcome(table, "False", FALSE, "retrieve", <<>>)
    ELSE IF sess.payment_status # "paid"
    THEN Outcome(table, "False", FALSE, "none", <<>>)
    ELSE IF ~Truthy(sess.metadata, "cartID")
    THEN Outcome(table, "False", FALSE, "none", <<>>)
    ELSE IF ~IntOf[sess.metadata["cartID"]].ok
    THEN Outcome(table, "False", FALSE, "none", <<>>)
    ELSE IF fault = "query"
    THEN Outcome(table, "False", FALSE, "query", <<"query">>)
    ELSE LET found == QueryFirst(table, IntOf[sess.metadata["cartID"]].val)
         IN  IF found = {}
             THEN Outcome(table, "False", FALSE, "none", <<"query">>)
             ELSE LET user == CHOOSE r \in found : TRUE
                  IN  IF ~user["has_access"]
                      THEN IF fault = "commit"
                           THEN Outcome(table, "False", FALSE, "commit",
                                        <<"query", "commit">>)
                           ELSE Outcome(
                                    Commit(table, SetAttr(user, "has_access", TRUE)),
                                    "True", FALSE, "none", <<"query", "commit">>)
                      ELSE Outcome(table, "True", FALSE, "none", <<"query">>)

\* main.py: is_session_already_fulfilled(session_id), a placeholder
IsSessionAlreadyFulfilledMain(session_id) == FALSE

\* main.py: fulfill_order(session_id); it has no return statement with a value
FulfillOrder(sess, fault, table) ==
    IF fault = "retrieve"
    THEN Outcome(table, "None", FALSE, "retrieve", <<>>)
    ELSE IF sess.payment_status # "paid"
    THEN Outcome(table, "None", FALSE, "none", <<>>)
    ELSE IF ~Truthy(sess.metadata, "cartID")
    THEN Outcome(table, "None", FALSE, "none", <<>>)
    ELSE IF ~IntOf[sess.metadata["cartID"]].ok
    THEN Outcome(table, "None", FALSE, "none", <<>>)
    ELSE IF IsSessionAlreadyFulfilledMain(sess.id)
    THEN Outcome(table, "None", FALSE, "none", <<>>)
    ELSE IF fault = "query"
    THEN Outcome(table, "None", FALSE, "query", <<"query", "rollback", "close">>)
    ELSE LET found == QueryFirst(table, IntOf[sess.metadata["cartID"]].val)
         IN  IF found = {}
             THEN Outcome(table, "None", FALSE, "none", <<"query", "close">>)
             ELSE LET user == CHOOSE r \in found : TRUE
                  IN  IF fault = "commit"
                      THEN Outcome(table, "None", FALSE, "commit",
                                   <<"query", "add", "commit", "rollback", "close">>)
                      ELSE Outcome(
                               Commit(table, SetAttr(user, "has_platform_access", TRUE)),
                               "None", FALSE, "none",
                               <<"query", "add", "commit", "close">>)

\* webhook-handler.py: fulfill_service(session_id, db); the user lookup is
\* outside every try block, so a failing query leaves the function as an
\* exception.
FulfillServiceWH(sess, fault, table) ==
    IF fault = "retrieve"
    THEN Outcome(table, "False", FALSE, "retrieve", <<>>)
    ELSE IF sess.payment_status # "paid"
    THEN Outcome(table, "False", FALSE, "none", <<>>)
    ELSE IF ~Truthy(sess.metadata, "cartID")
    THEN Outcome(table, "False", FALSE, "none", <<>>)
    ELSE IF ~IntOf[sess.metadata["cartID"]].ok
    THEN Outcome(table, "False", FALSE, "none", <<>>)
    ELSE IF fault = "query"
    THEN Outcome(table, "Raised", TRUE, "query", <<"query">>)
    ELSE LET found == QueryFirst(table, IntOf[sess.metadata["cartID"]].val)
         IN  IF found = {}
             THEN Outcome(table, "False", FALSE, "none", <<"query">>)
             ELSE LET user == CHOOSE r \in found : TRUE
                  IN  IF fault = "commit"
                      THEN Outcome(table, "False", FALSE, "commit",
                                   <<"query", "commit", "rollback">>)
                      ELSE Outcome(
                               Commit(table, SetAttr(user, "has_platform_access", TRUE)),
                               "True", FALSE, "none", <<"query", "commit">>)

\* webhook-handler.py: extract_user_id_from_invoice(invoice); the
\* subscription and customer lookups are comments, so only the invoice's
\* own metadata can yield an id.
ExtractUserIdFromInvoice(invoice) ==
    IF Truthy(invoice.metadata, "user_id")
    THEN IntOf[invoice.metadata["user_id"]]
    ELSE [ok |-> FALSE, val |-> 0]

\* The body shared by the two invoice handlers of webhook-handler.py, which
\* differ only in the value they assign.
InvoiceHandlerWH(invoice, fault, table, value) ==
    LET uid == ExtractUserIdFromInvoice(invoice)
    IN  IF ~uid.ok \/ uid.val = 0
        THEN Outcome(table, "None", FALSE, "none", <<>>)
        ELSE IF fault = "query"
        THEN Outcome(table, "Raised", TRUE, "query", <<"query">>)
        ELSE LET found == QueryFirst(table, uid.val)
             IN  IF found = {}
                 THEN Outcome(table, "None", FALSE, "none", <<"query">>)
                 ELSE LET user == CHOOSE r \in found : TRUE
                      IN  IF fault = "commit"
                          THEN Outcome(table, "None", FALSE, "commit",
                                       <<"query", "commit", "rollback">>)
                          ELSE Outcome(
                                   Commit(table,
                                          SetAttr(user, "has_platform_access", value)),
                                   "None", FALSE, "none", <<"query", "commit">>)

\* webhook-handler.py: handle_invoice_payment_succeeded(invoice, db)
HandleInvoicePaymentSucceeded(invoice, fault, table) ==
    InvoiceHandlerWH(invoice, fault, table, TRUE)

\* A faulty handle_invoice_payment_failed that grants access, on the mapped
\* column, to the user of an invoice whose payment failed.
HandleInvoicePaymentFailed_Grants(invoice, fault, table) ==
    LET uid == ExtractUserIdFromInvoice(invoice)
    IN  IF uid.ok /\ uid.val \in DOMAIN table /\ fault = "none"
        THEN Outcome(Commit(table, SetAttr(table[uid.val], "has_access", TRUE)),
                     "None", FALSE, "none", <<"query", "commit">>)
        ELSE InvoiceHandlerWH(invoice, fault, table, FALSE)

\* webhook-handler.py: handle_invoice_payment_failed(invoice, db)
HandleInvoicePaymentFailed(invoice, fault, table) ==
    InvoiceHandlerWH(invoice, fault, table, FALSE)

\* main.py: handle_subscription_renewal(invoice) only logs
HandleSubscriptionRenewal(invoice, fault, table) ==
    Outcome(table, "None", FALSE, "none", <<>>)

\* main.py: handle_failed_payment(invoice) only logs
HandleFailedPayment(invoice, fault, table) ==
    Outcome(table, "None", FALSE, "none", <<>>)

---------------------------------------------------------------------------
(* The webhook endpoints                                                   *)

CheckoutTypes ==
    {"checkout.session.completed", "checkout.session.async_payment_succeeded"}

InvoiceTypes == {"invoice.payment_succeeded", "invoice.payment_failed"}

OtherTypes ==
    {"subscription_schedule.completed", "subscription_schedule.created",
     "customer.created"}

\* The events the provider may deliver. An event's object is used by the
\* endpoints only for the session id (checkout) or as the invoice.
Events ==
    {[type |-> t, session_id |-> "cs_1", invoice |-> NoInvoice] :
        t \in CheckoutTypes}
    \cup {[type |-> t, session_id |-> "", invoice |-> i] :
        t \in InvoiceTypes, i \in Invoices}
    \cup {[type |-> t, session_id |-> "", invoice |-> NoInvoice] :
        t \in OtherTypes}

NoEvent == [type |-> "", session_id |-> "", invoice |-> NoInvoice]

\* What stripe.Webhook.construct_event does with a request: it returns the
\* event, or raises ValueError (the body does not parse) or
\* SignatureVerificationError (the signature does not match the secret).
VerifyFailures == {"ValueError", "SignatureVerificationError"}

\* A response of an endpoint together with what the request did.
\* status: the HTTP status; detail: the error detail or the body's status;
\* handler: the handler function called or scheduled, "none" if none;
\* scheduled: the background tasks added; out: the handler's outcome.
Response(status, detail, handler, scheduled, out) ==
    [status |-> status, detail |-> detail, handler |-> handler,
     scheduled |-> scheduled, out |-> out]

\* The outcome of a request that called no handler.
Untouched(table) == Outcome(table, "None", FALSE, "none", <<>>)

Task(fn, ev) == [fn |-> fn, session_id |-> ev.session_id, invoice |-> ev.invoice]

\* A faulty stripe_webhook of main.py that logs a signature mismatch and
\* acknowledges the request all the same.
StripeWebhookMain_SignatureIgnored(verify, ev, table) ==
    IF verify = "ValueError"
    THEN Response(400, "Invalid payload", "none", <<>>, Untouched(table))
    ELSE Response(200, "success", "none", <<>>, Untouched(table))

\* A faulty stripe_webhook of main.py that calls fulfill_order before it
\* answers, instead of adding it as a background task.
StripeWebhookMain_Inline(verify, ev, table) ==
    IF verify = "ValueError"
    THEN Response(400, "Invalid payload", "none", <<>>, Untouched(table))
    ELSE IF verify = "SignatureVerificationError"
    THEN Response(400, "Invalid signature", "none", <<>>, Untouched(table))
    ELSE IF ev.type \in CheckoutTypes
    THEN Response(200, "success", "fulfill_order", <<>>,
                  FulfillOrder([id |-> ev.session_id, payment_status |-> "paid",
                                metadata |-> Dict("cartID", PyStr(1))],
                               "none", table))
    ELSE IF ev.type = "invoice.payment_succeeded"
    THEN Response(200, "success", "handle_subscription_renewal",
                  <<Task("handle_subscription_renewal", ev)>>, Untouched(table))
    ELSE IF ev.type = "invoice.payment_failed"
    THEN Response(200, "success", "handle_failed_payment",
                  <<Task("handle_failed_payment", ev)>>, Untouched(table))
    ELSE Response(200, "success", "none", <<>>, Untouched(table))

\* main.py: stripe_webhook(request, background_tasks)
StripeWebhookMain(verify, ev, table) ==
    IF verify = "ValueError"
    THEN Response(400, "Invalid payload", "none", <<>>, Untouched(table))
    ELSE IF verify = "SignatureVerificationError"
    THEN Response(400, "Invalid signature", "none", <<>>, Untouched(table))
    ELSE IF ev.type \in CheckoutTypes
    THEN Response(200, "success", "fulfill_order",
                  <<Task("fulfill_order", ev)>>, Untouched(table))
    ELSE IF ev.type = "invoice.payment_succeeded"
    THEN Response(200, "success", "handle_subscription_renewal",
                  <<Task("handle_subscription_renewal", ev)>>, Untouched(table))
    ELSE IF ev.type = "invoice.payment_failed"
    THEN Response(200, "success", "handle_failed_payment",
                  <<Task("handle_failed_payment", ev)>>, Untouched(table))
    ELSE Response(200, "success", "none", <<>>, Untouched(table))

\* main.py: the function a background task runs
RunBackgroundTask(task, sess, fault, table) ==
    IF task.fn = "fulfill_order"
    THEN FulfillOrder(sess, fault, table)
    ELSE IF task.fn = "handle_subscription_renewal"
    THEN HandleSubscriptionRenewal(task.invoice, fault, table)
    ELSE HandleFailedPayment(task.invoice, fault, table)

\* webhook-handler.py: the response of stripe_webhook once its handler has
\* returned; only the checkout branch looks at the handler's return value.
AnswerWH(handler, out) ==
    IF out.raised
    THEN Response(500, "Internal Server Error", handler, <<>>, out)
    ELSE IF handler = "fulfill_service" /\ out.result # "True"
    THEN Response(500, "Failed to fulfill the service", handler, <<>>, out)
    ELSE Response(200, "success", handler, <<>>, out)

\* A faulty stripe_webhook of webhook-handler.py whose chain ends in an else
\* branch: every event type it does not know goes to the failed-payment
\* handler.
StripeWebhookWH_FallThrough(verify, ev, sess, fault, table) ==
    IF verify = "SignatureVerificationError"
    THEN Response(400, "Invalid webhook signature", "none", <<>>, Untouched(table))
    ELSE IF verify = "ValueError"
    THEN Response(500, "Internal Server Error", "none", <<>>,
                  Outcome(table, "Raised", TRUE, "none", <<>>))
    ELSE IF ev.type \in CheckoutTypes
    THEN AnswerWH("fulfill_service", FulfillServiceWH(sess, fault, table))
    ELSE IF ev.type = "invoice.payment_succeeded"
    THEN AnswerWH("handle_invoice_payment_succeeded",
                  HandleInvoicePaymentSucceeded(ev.invoice, fault, table))
    ELSE AnswerWH("handle_invoice_payment_failed",
                  HandleInvoicePaymentFailed(ev.invoice, fault, table))

\* webhook-handler.py: stripe_webhook(request, db). Only
\* SignatureVerificationError is caught around construct_event; an exception
\* that leaves the endpoint is answered by the framework with status 500.
StripeWebhookWH(verify, ev, sess, fault, table) ==
    IF verify = "SignatureVerificationError"
    THEN Response(400, "Invalid webhook signature", "none", <<>>, Untouched(table))
    ELSE IF verify = "ValueError"
    THEN Response(500, "Internal Server Error", "none", <<>>,
                  Outcome(table, "Raised", TRUE, "none", <<>>))
    ELSE IF ev.type \in CheckoutTypes
    THEN AnswerWH("fulfill_service", FulfillServiceWH(sess, fault, table))
    ELSE IF ev.type = "invoice.payment_succeeded"
    THEN AnswerWH("handle_invoice_payment_succeeded",
                  HandleInvoicePaymentSucceeded(ev.invoice, fault, table))
    ELSE IF ev.type = "invoice.payment_failed"
    THEN AnswerWH("handle_invoice_payment_failed",
                  HandleInvoicePaymentFailed(ev.invoice, fault, table))
    ELSE Response(200, "success", "none", <<>>, Untouched(table))

---------------------------------------------------------------------------
(* The payment-link endpoint                                               *)

\* payment-link.py: the keys of PRICE_IDS
PriceIdPlans == {"bronze", "silver", "gold"}

RequestedPlans == PriceIdPlans \cup {"platinum"}

LinkFaults == {"none", "query", "create"}

\* link: the metadata of the payment link created, EmptyDict if none was;
\* provider_calls: the calls made to stripe.PaymentLink.create.
LinkResponse(status, detail, raised, fault, db, provider_calls, link, table) ==
    [status |-> status, detail |-> detail, raised |-> raised, fault |-> fault,
     db |-> db, provider_calls |-> provider_calls, link |-> link,
     table |-> table]

\* A faulty create_payment_link that validates the plan before the user.
CreatePaymentLink_PlanFirst(user_id, plan, fault, table) ==
    IF plan \notin PriceIdPlans
    THEN LinkResponse(400, "Invalid subscription plan", FALSE, "none", <<>>,
                      0, EmptyDict, table)
    ELSE IF fault = "query"
    THEN LinkResponse(500, "Internal Server Error", TRUE, "query", <<"query">>,
                      0, EmptyDict, table)
    ELSE IF QueryFirst(table, user_id) = {}
    THEN LinkResponse(404, "User not found", FALSE, "none", <<"query">>,
                      0, EmptyDict, table)
    ELSE IF fault = "create"
    THEN LinkResponse(500, "Failed to create payment link", FALSE, "create",
                      <<"query">>, 1, EmptyDict, table)
    ELSE LinkResponse(200, "payment_link_url", FALSE, "none", <<"query">>,
                      1, Dict("cartID", PyStr(user_id)), table)

\* A faulty create_payment_link that asks the provider for the link before
\* it has validated the plan.
CreatePaymentLink_EagerCreate(user_id, plan, fault, table) ==
    IF fault = "query"
    THEN LinkResponse(500, "Internal Server Error", TRUE, "query", <<"query">>,
                      0, EmptyDict, table)
    ELSE IF QueryFirst(table, user_id) = {}
    THEN LinkResponse(404, "User not found", FALSE, "none", <<"query">>,
                      0, EmptyDict, table)
    ELSE IF fault = "create"
    THEN LinkResponse(500, "Failed to create payment link", FALSE, "create",
                      <<"query">>, 1, EmptyDict, table)
    ELSE IF plan \notin PriceIdPlans
    THEN LinkResponse(400, "Invalid subscription plan", FALSE, "none", <<"query">>,
                      1, EmptyDict, table)
    ELSE LinkResponse(200, "payment_link_url", FALSE, "none", <<"query">>,
                      1, Dict("cartID", PyStr(user_id)), table)

\* payment-link.py: create_payment_link(request, db)
CreatePaymentLink(user_id, plan, fault, table) ==
    IF fault = "query"
    THEN LinkResponse(500, "Internal Server Error", TRUE, "query", <<"query">>,
                      0, EmptyDict, table)
    ELSE IF QueryFirst(table, user_id) = {}
    THEN LinkResponse(404, "User not found", FALSE, "none", <<"query">>,
                      0, EmptyDict, table)
    ELSE IF plan \notin PriceIdPlans
    THEN LinkResponse(400, "Invalid subscription plan", FALSE, "none", <<"query">>,
                      0, EmptyDict, table)
    ELSE IF fault = "create"
    THEN LinkResponse(500, "Failed to create payment link", FALSE, "create",
                      <<"query">>, 1, EmptyDict, table)
    ELSE LinkResponse(200, "payment_link_url", FALSE, "none", <<"query">>,
                      1, Dict("cartID", PyStr(user_id)), table)

---------------------------------------------------------------------------
(* State                                                                   *)

\* users: the users table, a function from the ids that have a row;
\* tasks: the bag of background tasks of main.py that were added and have
\*        not run (tasks of different requests run in no fixed order);
\* last:  a record of the most recent operation and what it did;
\* deliveries: the requests that are being handled at the same time, each
\*        at a line of its fulfillment function (used where requests are
\*        followed line by line; otherwise a request is one step);
\* provider: the payment provider's record of an event it has to deliver
\*        (used where its redelivery is followed).
VARIABLES users, tasks, last, deliveries, provider

vars == <<users, tasks, last, deliveries, provider>>

\* No request is followed line by line.
NoDeliveries ==
    [file |-> "none", session |-> NoSession, pre |-> EmptyDict, proc |-> <<>>]

\* The provider's redelivery is not followed.
NoProvider ==
    [state |-> "none", event |-> NoEvent, session |-> NoSession,
     failures |-> 0]

\* op: the entry point that ran; file: the source file it belongs to;
\* session: the checkout session the provider returned to it; pre: the users
\* table before it ran; the other fields are its inputs and the Response /
\* Outcome / LinkResponse fields described above.
Idle ==
    [op |-> "none", file |-> "none", verify |-> "none", event |-> NoEvent,
     session |-> NoSession, handler |-> "none", fault |-> "none",
     result |-> "None", raised |-> FALSE, status |-> 0, detail |-> "",
     scheduled |-> <<>>, db |-> <<>>, pre |-> EmptyDict, user_id |-> 0,
     plan |-> "", provider_calls |-> 0, link |-> EmptyDict]

\* Every id of UserIds has a row, with the column defaults.
Init ==
    /\ users = [u \in UserIds |-> NewUser(u)]
    /\ tasks = EmptyBag
    /\ last = Idle
    /\ deliveries = NoDeliveries
    /\ provider = NoProvider

\* The record of a request to a webhook endpoint
WebhookRecord(file, verify, ev, sess, resp, table) ==
    [op |-> "stripe_webhook", file |-> file, verify |-> verify, event |-> ev,
     session |-> sess, handler |-> resp.handler, fault |-> resp.out.fault,
     result |-> resp.out.result, raised |-> resp.out.raised,
     status |-> resp.status, detail |-> resp.detail,
     scheduled |-> resp.scheduled, db |-> resp.out.db, pre |-> table,
     user_id |-> 0, plan |-> "", provider_calls |-> 0, link |-> EmptyDict]

\* The record of a handler that ran outside a request: a direct call, or a
\* background task
CallRecord(op, file, ev, sess, handler, out, table) ==
    [op |-> op, file |-> file, verify |-> "none", event |-> ev,
     session |-> sess, handler |-> handler, fault |-> out.fault,
     result |-> out.result, raised |-> out.raised, status |-> 0,
     detail |-> "", scheduled |-> <<>>, db |-> out.db, pre |-> table,
     user_id |-> 0, plan |-> "", provider_calls |-> 0, link |-> EmptyDict]

\* The record of a request to the payment-link endpoint
LinkRecord(user_id, plan, resp, table) ==
    [op |-> "create_payment_link", file |-> "payment-link", verify |-> "none",
     event |-> NoEvent, session |-> NoSession, handler |-> "none",
     fault |-> resp.fault, result |-> "None", raised |-> resp.raised,
     status |-> resp.status, detail |-> resp.detail, scheduled |-> <<>>,
     db |-> resp.db, pre |-> table, user_id |-> user_id, plan |-> plan,
     provider_calls |-> resp.provider_calls, link |-> resp.link]

\* fullfillment.py: a call of fulfill_service (the file defines no route)
CallFulfillService ==
    /\ UNCHANGED <<deliveries, provider>>
    /\ \E in \in FulfillInputs :
        \E out \in {FulfillService(in[1], in[2], users)} :
            /\ users' = out.table
            /\ last' = CallRecord("fulfill_service", "fullfillment", NoEvent,
                                   in[1], "fulfill_service", out, users)
            /\ UNCHANGED tasks

\* main.py: a request to /webhooks/stripe
PostWebhooksStripe ==
    /\ UNCHANGED <<deliveries, provider>>
    /\ \/ \E verify \in VerifyFailures :
           \E resp \in {StripeWebhookMain(verify, NoEvent, users)} :
               /\ users' = resp.out.table
               /\ last' = WebhookRecord("main", verify, NoEvent, NoSession, resp, users)
               /\ UNCHANGED tasks
       \/ \E ev \in Events :
           \E resp \in {StripeWebhookMain("ok", ev, users)} :
               /\ BagCardinality(tasks) + Len(resp.scheduled) <= MaxTasks
               /\ users' = resp.out.table
               /\ tasks' = tasks (+) SetToBag({resp.scheduled[i] :
                                                 i \in 1..Len(resp.scheduled)})
               /\ last' = WebhookRecord("main", "ok", ev, NoSession, resp, users)

\* main.py: a pending background task runs, after its request was answered
RunTask ==
    /\ UNCHANGED <<deliveries, provider>>
    /\ \E task \in BagToSet(tasks) :
        \E in \in IF task.fn = "fulfill_order"
                  THEN FulfillInputs ELSE {<<NoSession, "none">>} :
            \E out \in {RunBackgroundTask(task, in[1], in[2], users)} :
                /\ users' = out.table
                /\ tasks' = tasks (-) SetToBag({task})
                /\ last' = CallRecord("background_task", "main",
                                       [type |-> "", session_id |-> task.session_id,
                                        invoice |-> task.invoice],
                                       in[1], task.fn, out, users)

\* webhook-handler.py: a request to /webhook
PostWebhook ==
    /\ UNCHANGED <<deliveries, provider>>
    /\ \/ \E verify \in VerifyFailures :
           \E resp \in {StripeWebhookWH(verify, NoEvent, NoSession, "none", users)} :
               /\ users' = resp.out.table
               /\ last' = WebhookRecord("webhook-handler", verify, NoEvent,
                                         NoSession, resp, users)
               /\ UNCHANGED tasks
       \/ \E ev \in Events :
           \E in \in IF ev.type \in CheckoutTypes THEN FulfillInputs
                     ELSE IF ev.type \in InvoiceTypes
                     THEN {<<NoSession, f>> : f \in InvoiceFaults(ev.invoice)}
                     ELSE {<<NoSession, "none">>} :
               \E resp \in {StripeWebhookWH("ok", ev, in[1], in[2], users)} :
                   /\ users' = resp.out.table
                   /\ last' = WebhookRecord("webhook-handler", "ok", ev, in[1],
                                             resp, users)
                   /\ UNCHANGED tasks

\* payment-link.py: a request to /create-payment-link
PostCreatePaymentLink ==
    /\ UNCHANGED <<deliveries, provider>>
    /\ \E user_id \in 1..(MaxUser + 1), plan \in RequestedPlans, fault \in LinkFaults :
        \E resp \in {CreatePaymentLink(user_id, plan, fault, users)} :
            /\ users' = resp.table
            /\ last' = LinkRecord(user_id, plan, resp, users)
            /\ UNCHANGED tasks

Next ==
    \/ CallFulfillService
    \/ PostWebhooksStripe
    \/ RunTask
    \/ PostWebhook
    \/ PostCreatePaymentLink

Spec == Init /\ [][Next]_vars

---------------------------------------------------------------------------
(* Vocabulary of the properties, read off the record of the last operation *)

\* A fulfillment function ran in the last step (a request to main.py only
\* schedules fulfill_order; it runs in the background task).
FulfillRan ==
    \/ last.op = "fulfill_service"
    \/ last.op = "background_task" /\ last.handler = "fulfill_order"
    \/ /\ last.op = "stripe_webhook"
       /\ last.file = "webhook-handler"
       /\ last.handler = "fulfill_service"

\* The provider returned a session to the fulfillment function.
RetrievedSession == last.session \in CheckoutSessions

\* The failed-payment handler, resp. the payment-succeeded handler, of an
\* endpoint ran in the last step.
PaymentFailedRan ==
    \/ last.op = "background_task" /\ last.handler = "handle_failed_payment"
    \/ last.op = "stripe_webhook" /\ last.handler = "handle_invoice_payment_failed"

PaymentSucceededRan ==
    \/ last.op = "background_task" /\ last.handler = "handle_subscription_renewal"
    \/ last.op = "stripe_webhook"
       /\ last.handler = "handle_invoice_payment_succeeded"

\* The key k of the metadata d parses to the id of a user with a row in table.
Resolves(d, k, table) == ReachesStore(d, k) /\ IntOf[d[k]].val \in DOMAIN table

\* The user the session's cartID, resp. the invoice's user_id, names.
SessionUser == IntOf[last.session.metadata["cartID"]].val

InvoiceUser == IntOf[last.event.invoice.metadata["user_id"]].val

\* The store calls of the last operation include call c.
DbCalled(c) == \E i \in 1..Len(last.db) : last.db[i] = c

---------------------------------------------------------------------------
(* C1..C10                                                                 *)

\* C1: in each fulfillment variant, after fulfillment of a paid session
\* whose cartID parses to the id of an existing user whose persisted
\* has_access was false, with no provider or store failure, that user's
\* persisted has_access is true.
C1_PaidSessionGrantsAccess ==
    ( /\ FulfillRan
      /\ RetrievedSession
      /\ last.session.payment_status = "paid"
      /\ Resolves(last.session.metadata, "cartID", last.pre)
      /\ last.fault = "none" )
    => ( ~last.pre[SessionUser]["has_access"]
            => users[SessionUser]["has_access"] )

\* C2: fulfillment of a session whose payment status is not "paid" leaves
\* the users table exactly as it was, in all three variants, whatever the
\* metadata and the user's flag.
C2_UnpaidLeavesStore ==
    (FulfillRan /\ RetrievedSession /\ last.session.payment_status # "paid")
    => (users = last.pre /\ last.db = <<>>)

\* C2, witness: fulfillment ran for an unpaid session whose cartID names an
\* existing user that has access.
C2_Witness ==
    /\ FulfillRan
    /\ RetrievedSession
    /\ last.session.payment_status # "paid"
    /\ Resolves(last.session.metadata, "cartID", users)
    /\ users[SessionUser]["has_access"]
    /\ last.file = "fullfillment"

\* C3: for every session whose cartID resolves to an existing user, from
\* every reachable value of the user's flag, running fulfillment twice in
\* sequence leaves the users table as running it once does, in all three
\* variants (under the same store conditions for both runs).
C3_FulfillmentIdempotent ==
    \A sess \in CheckoutSessions, fault \in StoreFaults :
        Resolves(sess.metadata, "cartID", users)
        => /\ FulfillService(sess, fault,
                             FulfillService(sess, fault, users).table).table
                = FulfillService(sess, fault, users).table
           /\ FulfillOrder(sess, fault,
                           FulfillOrder(sess, fault, users).table).table
                = FulfillOrder(sess, fault, users).table
           /\ FulfillServiceWH(sess, fault,
                               FulfillServiceWH(sess, fault, users).table).table
                = FulfillServiceWH(sess, fault, users).table

\* C3, witness: a second fulfillment of a paid session ran without failure
\* for a user to whom an earlier fulfillment had granted access.
C3_Witness ==
    /\ FulfillRan
    /\ RetrievedSession
    /\ last.file = "fullfillment"
    /\ last.session.payment_status = "paid"
    /\ Resolves(last.session.metadata, "cartID", last.pre)
    /\ last.fault = "none"
    /\ last.pre[SessionUser]["has_access"]
    /\ users[SessionUser]["has_access"]

\* C4: fulfillment of a paid session whose user already has the access flag
\* true issues no commit (and so writes nothing), in every variant.
C4_ReplayIssuesNoCommit ==
    ( /\ FulfillRan
      /\ RetrievedSession
      /\ last.session.payment_status = "paid"
      /\ Resolves(last.session.metadata, "cartID", last.pre)
      /\ last.pre[SessionUser]["has_access"] )
    => ~DbCalled("commit")

\* C5: a request to either webhook endpoint whose signature does not match
\* is answered with 400, calls no handler, schedules no background task and
\* makes no store read or write.
C5_BadSignatureRejected ==
    (last.op = "stripe_webhook" /\ last.verify = "SignatureVerificationError")
    => /\ last.status = 400
       /\ last.handler = "none"
       /\ last.scheduled = <<>>
       /\ last.db = <<>>
       /\ users = last.pre

\* C5, witness: /webhooks/stripe answered a request with a bad signature
\* while a user held access.
C5_Witness ==
    /\ last.op = "stripe_webhook"
    /\ last.file = "main"
    /\ last.verify = "SignatureVerificationError"
    /\ \E u \in DOMAIN users : users[u]["has_access"]

\* C6: a request to either webhook endpoint whose body does not parse as an
\* event is answered with 400 and processed no further.
C6_InvalidPayloadRejected ==
    (last.op = "stripe_webhook" /\ last.verify = "ValueError")
    => /\ last.status = 400
       /\ last.handler = "none"
       /\ last.scheduled = <<>>
       /\ last.db = <<>>
       /\ users = last.pre

\* C7: after a verified invoice.payment_failed event was handled whose
\* invoice resolves to an existing user whose persisted access flag was
\* true, the user's persisted access flag is false, in both endpoints.
\* (Stated for the runs without a store failure; the claim covers more.)
C7_FailedPaymentRevokes ==
    ( /\ PaymentFailedRan
      /\ Resolves(last.event.invoice.metadata, "user_id", last.pre)
      /\ last.fault = "none" )
    => ( last.pre[InvoiceUser]["has_access"]
            => ~users[InvoiceUser]["has_access"] )

\* C8: after a verified invoice.payment_succeeded event was handled whose
\* invoice resolves to an existing user, the user's persisted access flag
\* is true, in both endpoints.
\* (Stated for the runs without a store failure; the claim covers more.)
C8_SucceededPaymentGrants ==
    ( /\ PaymentSucceededRan
      /\ Resolves(last.event.invoice.metadata, "user_id", last.pre)
      /\ last.fault = "none" )
    => users[InvoiceUser]["has_access"]

\* C9: fulfillment of a paid session whose correlation key cannot be
\* resolved (cartID missing, not an integer, or no user with that id) ends
\* not fulfilled, raises no exception and writes nothing, in all variants.
C9_UnresolvedKeyIsBenign ==
    ( /\ FulfillRan
      /\ RetrievedSession
      /\ last.session.payment_status = "paid"
      /\ ~Resolves(last.session.metadata, "cartID", last.pre) )
    => /\ last.result # "True"
       /\ ~last.raised
       /\ ~DbCalled("commit")
       /\ users = last.pre

\* The user of the last payment-link request has a row.
LinkUserExists == last.user_id \in DOMAIN last.pre

\* C10, as claimed: every payment-link request whose plan is not bronze,
\* silver or gold is answered 400 "Invalid subscription plan", and 404 is
\* the answer exactly when the user id does not exist.
\* (Stated for the requests whose user lookup does not fail.)
C10_AsClaimed ==
    (last.op = "create_payment_link" /\ last.fault # "query")
    => /\ last.plan \notin PriceIdPlans
            => (last.status = 400 /\ last.detail = "Invalid subscription plan")
       /\ last.status = 404 <=> ~LinkUserExists

\* C10, amended: for the requests whose user lookup does not fail, 404 is
\* the answer exactly when the user id does not exist, and a request of an
\* existing user whose plan is not bronze, silver or gold is answered 400
\* "Invalid subscription plan".
C10_InvalidPlanOfKnownUser ==
    (last.op = "create_payment_link" /\ last.fault # "query")
    => /\ last.status = 404 <=> ~LinkUserExists
       /\ (LinkUserExists /\ last.plan \notin PriceIdPlans)
            => (last.status = 400 /\ last.detail = "Invalid subscription plan")

\* C10, witness: an existing user asked for the plan "platinum".
C10_Witness ==
    /\ last.op = "create_payment_link"
    /\ last.plan = "platinum"
    /\ LinkUserExists
    /\ last.status = 400

---------------------------------------------------------------------------
(* C11..C20                                                                *)

\* A webhook endpoint answered a request whose event passed verification.
VerifiedRequest == last.op = "stripe_webhook" /\ last.verify = "ok"

\* The success acknowledgment {"status": "success"}
Acknowledged == last.status = 200 /\ last.detail = "success"

\* C11: every verified event is answered with the success acknowledgment,
\* except that /webhook of webhook-handler.py answers 500 to a checkout
\* event whose fulfillment did not succeed; no failure of an invoice handler
\* or of a handler of main.py changes the answer.
C11_AcknowledgedUnlessCheckoutFails ==
    VerifiedRequest
    => \/ Acknowledged
       \/ /\ last.file = "webhook-handler"
          /\ last.event.type \in CheckoutTypes
          /\ last.result # "True"
          /\ last.status = 500

\* The handler each endpoint has for an event type, "none" if it has none.
HandlerFor(file, type) ==
    IF type \in CheckoutTypes
    THEN (IF file = "main" THEN "fulfill_order" ELSE "fulfill_service")
    ELSE IF type = "invoice.payment_succeeded"
    THEN (IF file = "main" THEN "handle_subscription_renewal"
          ELSE "handle_invoice_payment_succeeded")
    ELSE IF type = "invoice.payment_failed"
    THEN (IF file = "main" THEN "handle_failed_payment"
          ELSE "handle_invoice_payment_failed")
    ELSE "none"

\* How often the last operation made the call c on the store.
DbCount(c) == Cardinality({i \in 1..Len(last.db) : last.db[i] = c})

\* C12: a request with a verified event invokes (or, in main.py, schedules)
\* the one handler its event type names and no other, and invokes it once;
\* for every other event type no handler runs, the store is unchanged and
\* the request is acknowledged. Every request has one response, and a
\* background task that ran is not run again.
C12_OneHandlerByType ==
    /\ VerifiedRequest
       => /\ last.handler = HandlerFor(last.file, last.event.type)
          /\ last.scheduled =
                (IF last.file = "main" /\ last.handler # "none"
                 THEN <<Task(last.handler, last.event)>> ELSE <<>>)
          /\ DbCount("query") <= 1 /\ DbCount("commit") <= 1
          /\ last.handler = "none"
                => (users = last.pre /\ last.db = <<>> /\ Acknowledged)
    /\ last.op = "stripe_webhook" => last.status \in {200, 400, 500}
    /\ last.op = "background_task"
       => /\ last.scheduled = <<>>
          /\ BagCardinality(tasks) < MaxTasks

\* C12, witness: /webhook acknowledged an event of a type it has no handler
\* for, while a user held access.
C12_Witness ==
    /\ VerifiedRequest
    /\ last.file = "webhook-handler"
    /\ last.event.type \in OtherTypes
    /\ Acknowledged
    /\ \E u \in DOMAIN users : users[u]["has_access"]

\* The last step handled a confirmed payment: a checkout event of a paid
\* session, or an invoice.payment_succeeded event.
ConfirmedPaymentStep ==
    \/ FulfillRan /\ RetrievedSession /\ last.session.payment_status = "paid"
    \/ PaymentSucceededRan

\* The persisted flag of user u went from a to b in the last step.
FlagWent(u, a, b) ==
    /\ last.op # "none"
    /\ last.pre[u]["has_access"] = a
    /\ users[u]["has_access"] = b

\* C13: whatever the sequence of requests, a user's persisted access flag
\* goes from false to true only in a step that handles a confirmed payment
\* and from true to false only in a step that handles invoice.payment_failed.
C13_FlagWriters ==
    \A u \in DOMAIN users :
        /\ FlagWent(u, FALSE, TRUE) => ConfirmedPaymentStep
        /\ FlagWent(u, TRUE, FALSE) => PaymentFailedRan

\* C13, witness: a step took a user's flag from false to true.
C13_Witness == \E u \in DOMAIN users : FlagWent(u, FALSE, TRUE)

\* C14: in every fulfillment variant, when the session retrieval or a store
\* call fails during fulfillment, no exception leaves the fulfillment
\* function, the result is "not fulfilled", a failed store transaction is
\* rolled back, and the users table is as before the call.
C14_FailuresAreContained ==
    (FulfillRan /\ last.fault # "none")
    => /\ ~last.raised
       /\ last.result # "True"
       /\ last.fault \in {"query", "commit"} => DbCalled("rollback")
       /\ users = last.pre

\* C19: a request to the payment-link endpoint leaves the users table as it
\* was whatever its outcome, makes no store call but the user lookup, and
\* asks the provider for a link only when the user exists and the plan is
\* bronze, silver or gold.
C19_LinkEndpointOnlyReads ==
    last.op = "create_payment_link"
    => /\ users = last.pre
       /\ \A i \in 1..Len(last.db) : last.db[i] = "query"
       /\ last.status \in {200, 400, 404, 500}
       /\ last.provider_calls \in {0, 1}
       /\ last.provider_calls = 1
            => (LinkUserExists /\ last.plan \in PriceIdPlans)

\* C19, witness: a request of an unknown user was answered 404 without a
\* provider call, while a user held access.
C19_Witness ==
    /\ last.op = "create_payment_link"
    /\ ~LinkUserExists
    /\ last.status = 404
    /\ last.provider_calls = 0
    /\ \E u \in DOMAIN users : users[u]["has_access"]

---------------------------------------------------------------------------
(* Two deliveries of one checkout event, followed line by line             *)

\* The two requests that carry the same event
Deliveries == {1, 2}

Variants == {"fullfillment", "main", "webhook-handler"}

\* The attribute the variant's fulfillment function assigns
AccessAttribute(file) ==
    IF file = "fullfillment" THEN "has_access" ELSE "has_platform_access"

\* db.commit() of a session whose instance obj has the attributes dirty
\* assigned: the UPDATE carries the assigned mapped columns only.
Flush(table, obj, dirty) ==
    [table EXCEPT ![obj["id"]] =
        [c \in MappedColumns |-> IF c \in dirty THEN obj[c] ELSE @[c]]]

\* The users tables the service can be in: any user may have been granted
\* access by an earlier fulfillment.
ReachableTables ==
    {[u \in UserIds |-> [NewUser(u) EXCEPT !["has_access"] = f[u]]] :
        f \in [UserIds -> BOOLEAN]}

\* The paid sessions whose cartID resolves to a user of the table
PaidSessionsOf(table) ==
    {s \in CheckoutSessions :
        s.payment_status = "paid" /\ Resolves(s.metadata, "cartID", table)}

\* A request at the first line of its fulfillment function; each request has
\* its own store session, so its own loaded instance obj.
DeliveryStart ==
    [pc |-> "retrieve", user_id |-> 0, obj |-> EmptyDict, dirty |-> {},
     result |-> "None"]

Init15 ==
    /\ users \in ReachableTables
    /\ tasks = EmptyBag
    /\ last = Idle
    /\ provider = NoProvider
    /\ \E file \in Variants, sess \in PaidSessionsOf(users) :
        deliveries = [file |-> file, session |-> sess, pre |-> users,
                      proc |-> [d \in Deliveries |-> DeliveryStart]]

\* Request d moves to the state rec; nothing else changes but the table.
DeliveryGoes(d, rec) ==
    /\ deliveries' = [deliveries EXCEPT !.proc[d] = rec]
    /\ UNCHANGED <<tasks, last, provider>>

DeliveryDone(d, result) ==
    [deliveries.proc[d] EXCEPT !.pc = "done", !.result = result]

\* Session.retrieve and the checks of the session: payment status, cartID,
\* int(cartID), and in main.py the fulfilled-session placeholder
DeliveryRetrieve(d) ==
    LET sess == deliveries.session
    IN  /\ deliveries.proc[d].pc = "retrieve"
        /\ UNCHANGED users
        /\ IF \/ sess.payment_status # "paid"
              \/ ~Truthy(sess.metadata, "cartID")
              \/ ~IntOf[sess.metadata["cartID"]].ok
              \/ deliveries.file = "main" /\ IsSessionAlreadyFulfilledMain(sess.id)
           THEN DeliveryGoes(d, DeliveryDone(d, "False"))
           ELSE DeliveryGoes(d, [deliveries.proc[d] EXCEPT
                                   !.pc = "query",
                                   !.user_id = IntOf[sess.metadata["cartID"]].val])

\* db.query(User).filter(User.id == user_id).first()
DeliveryQuery(d) ==
    LET found == QueryFirst(users, deliveries.proc[d].user_id)
    IN  /\ deliveries.proc[d].pc = "query"
        /\ UNCHANGED users
        /\ IF found = {}
           THEN DeliveryGoes(d, DeliveryDone(d, "False"))
           ELSE DeliveryGoes(d, [deliveries.proc[d] EXCEPT
                                   !.pc = IF deliveries.file = "fullfillment"
                                          THEN "check" ELSE "set",
                                   !.obj = CHOOSE r \in found : TRUE])

\* fullfillment.py: if not user.has_access
DeliveryCheck(d) ==
    /\ deliveries.proc[d].pc = "check"
    /\ UNCHANGED users
    /\ IF ~deliveries.proc[d].obj["has_access"]
       THEN DeliveryGoes(d, [deliveries.proc[d] EXCEPT !.pc = "set"])
       ELSE DeliveryGoes(d, DeliveryDone(d, "True"))

\* The assignment of True to the variant's attribute
DeliverySet(d) ==
    LET attr == AccessAttribute(deliveries.file)
    IN  /\ deliveries.proc[d].pc = "set"
        /\ UNCHANGED users
        /\ DeliveryGoes(d, [deliveries.proc[d] EXCEPT
                              !.pc = "commit",
                              !.obj = SetAttr(@, attr, TRUE),
                              !.dirty = @ \cup {attr}])

\* db.commit()
DeliveryCommit(d) ==
    /\ deliveries.proc[d].pc = "commit"
    /\ users' = Flush(users, deliveries.proc[d].obj, deliveries.proc[d].dirty)
    /\ DeliveryGoes(d, DeliveryDone(d, "True"))

Next15 ==
    \E d \in Deliveries :
        \/ DeliveryRetrieve(d)
        \/ DeliveryQuery(d)
        \/ DeliveryCheck(d)
        \/ DeliverySet(d)
        \/ DeliveryCommit(d)

Spec15 == Init15 /\ [][Next15]_vars

\* Both requests have returned.
AllDelivered ==
    /\ deliveries.file # "none"
    /\ \A d \in Deliveries : deliveries.proc[d].pc = "done"

\* The users table after one delivery handled alone, without failure
SingleDelivery(file, sess, table) ==
    IF file = "fullfillment" THEN FulfillService(sess, "none", table).table
    ELSE IF file = "main" THEN FulfillOrder(sess, "none", table).table
    ELSE FulfillServiceWH(sess, "none", table).table

\* C15: when two deliveries of the same checkout event for a paid session
\* of an existing user are handled at the same time, then however their
\* lines interleave, once both have returned the user's persisted access
\* flag is true and the users table is what a single delivery leaves.
C15_ConcurrentDeliveriesGrant ==
    AllDelivered
    => /\ users[IntOf[deliveries.session.metadata["cartID"]].val]["has_access"]
       /\ users = SingleDelivery(deliveries.file, deliveries.session,
                                 deliveries.pre)

---------------------------------------------------------------------------
(* The provider redelivers a checkout event to /webhook until a 2xx answer *)

\* The provider has a checkout event of a paid session of an existing user
\* to deliver; failures counts the deliveries that may still meet a failure.
Init16 ==
    /\ users \in ReachableTables
    /\ tasks = EmptyBag
    /\ last = Idle
    /\ deliveries = NoDeliveries
    /\ \E t \in CheckoutTypes, sess \in PaidSessionsOf(users), n \in 0..MaxFailures :
        provider = [state |-> "pending",
                    event |-> [type |-> t, session_id |-> sess.id,
                               invoice |-> NoInvoice],
                    session |-> sess, failures |-> n]

\* What a delivery may meet while failures are left
TransientFaults == {"none", "retrieve", "query", "commit"}

\* webhook-handler.py: the provider delivers the event to /webhook, and
\* stops delivering it once the answer is a 2xx.
Redeliver ==
    /\ provider.state = "pending"
    /\ \E fault \in IF provider.failures > 0 THEN TransientFaults ELSE {"none"} :
        \E sess \in {IF fault = "retrieve" THEN NoSession ELSE provider.session} :
            \E resp \in {StripeWebhookWH("ok", provider.event, sess, fault, users)} :
                /\ users' = resp.out.table
                /\ last' = WebhookRecord("webhook-handler", "ok", provider.event,
                                          sess, resp, users)
                /\ provider' =
                      [provider EXCEPT
                          !.state = IF resp.status \in 200..299
                                    THEN "acknowledged" ELSE "pending",
                          !.failures = IF fault = "none" THEN @ ELSE @ - 1]
    /\ UNCHANGED <<tasks, deliveries>>

Next16 == Redeliver

\* The provider keeps redelivering an event that has not been acknowledged.
Spec16 == Init16 /\ [][Next16]_vars /\ WF_vars(Redeliver)

\* The user the session of the provider's event names
RedeliveredUser == IntOf[provider.session.metadata["cartID"]].val

\* C16: with /webhook of webhook-handler.py, a provider that redelivers a
\* checkout event until it is answered 2xx, and failures that cease, a paid
\* session of an existing user eventually has the user's persisted access
\* flag true, and the event is eventually acknowledged with success.
C16_RedeliveryRecovers ==
    /\ <>(users[RedeliveredUser]["has_access"])
    /\ <>(provider.state = "acknowledged" /\ Acknowledged)

---------------------------------------------------------------------------
(* /webhooks/stripe of main.py with a process that may crash               *)

\* main.py: the process stops while background tasks are pending; the tasks
\* are held in memory by the request that added them, so they are lost.
CrashMain ==
    /\ tasks # EmptyBag
    /\ tasks' = EmptyBag
    /\ last' = CallRecord("crash", "main", NoEvent, NoSession, "none",
                           Untouched(users), users)
    /\ UNCHANGED <<users, deliveries, provider>>

\* main.py starts with any users table the service can be in.
Init17 ==
    /\ users \in ReachableTables
    /\ tasks = EmptyBag
    /\ last = Idle
    /\ deliveries = NoDeliveries
    /\ provider = NoProvider

Next17 ==
    \/ PostWebhooksStripe
    \/ RunTask
    \/ CrashMain

Spec17 == Init17 /\ [][Next17]_vars

\* The background task that the record r of a step of main.py is about
TaskOf(r) == Task(r.handler, r.event)

\* C17: in /webhooks/stripe of main.py a verified event is acknowledged
\* without its handler having run (no store call, table unchanged) and the
\* handler is added as one background task; a background task runs only when
\* it is pending, which it is only after such an acknowledgment, so every
\* store call of a handler follows the acknowledgment; a task that fails
\* leaves the table unchanged and is removed, and a crash removes the
\* pending tasks, so nothing attempts the write again.
C17_TaskFollowsAcknowledgment ==
    [][ /\ (last'.op = "stripe_webhook" /\ last'.verify = "ok")
            => /\ Acknowledged'
               /\ last'.db = <<>>
               /\ users' = users
               /\ tasks' = IF last'.handler = "none" THEN tasks
                           ELSE tasks (+) SetToBag({TaskOf(last')})
        /\ last'.op = "background_task"
            => /\ BagIn(TaskOf(last'), tasks)
               /\ tasks' = tasks (-) SetToBag({TaskOf(last')})
               /\ last'.fault # "none" => users' = users
        /\ last'.op = "crash" => (tasks' = EmptyBag /\ users' = users)
        /\ (\E task \in BagToSet(tasks') :
                CopiesIn(task, tasks') > CopiesIn(task, tasks))
            => (last'.op = "stripe_webhook" /\ Acknowledged')
      ]_vars

\* C17, witness: the background fulfill_order of a paid session of an
\* existing user failed at its commit, after the acknowledgment; the user's
\* flag is unwritten and no task is left to try again.
C17_Witness ==
    /\ last.op = "background_task"
    /\ last.handler = "fulfill_order"
    /\ last.session.payment_status = "paid"
    /\ Resolves(last.session.metadata, "cartID", last.pre)
    /\ last.fault = "commit"
    /\ ~users[SessionUser]["has_access"]
    /\ tasks = EmptyBag

---------------------------------------------------------------------------
(* A payment link followed to the fulfillment of its checkout session      *)

LinkUserIds == 1..MaxLinkUser

\* Every id of LinkUserIds has a row, and at most one user holds access
\* from an earlier purchase.
Init18 ==
    /\ \E g \in {0} \cup LinkUserIds :
        users = [u \in LinkUserIds |->
                    [NewUser(u) EXCEPT !["has_access"] = (u = g)]]
    /\ tasks = EmptyBag
    /\ last = Idle
    /\ deliveries = NoDeliveries
    /\ provider = NoProvider

\* payment-link.py: a first request to /create-payment-link
IssueLink ==
    /\ last.op = "none"
    /\ \E user_id \in 1..(MaxLinkUser + 1), plan \in RequestedPlans :
        \E resp \in {CreatePaymentLink(user_id, plan, "none", users)} :
            /\ users' = resp.table
            /\ last' = LinkRecord(user_id, plan, resp, users)
    /\ UNCHANGED <<tasks, deliveries, provider>>

\* The fulfillment function of a variant
FulfillBy(file, sess, fault, table) ==
    IF file = "fullfillment" THEN FulfillService(sess, fault, table)
    ELSE IF file = "main" THEN FulfillOrder(sess, fault, table)
    ELSE FulfillServiceWH(sess, fault, table)

\* The customer follows the link that was issued: the provider creates a
\* checkout session that carries the link's metadata, and a variant's
\* fulfillment function is called for it. The record keeps the user the
\* link was issued for.
FulfillLinkedSession ==
    /\ last.op = "create_payment_link"
    /\ last.link # EmptyDict
    /\ \E file \in Variants, status \in PaymentStatuses :
        \E sess \in {[id |-> "cs_1", payment_status |-> status,
                      metadata |-> last.link]} :
            \E out \in {FulfillBy(file, sess, "none", users)} :
                /\ users' = out.table
                /\ last' = [CallRecord("fulfill_linked_session", file, NoEvent,
                                        sess, "fulfill", out, users)
                               EXCEPT !.user_id = last.user_id,
                                      !.link = last.link]
    /\ UNCHANGED <<tasks, deliveries, provider>>

Next18 ==
    \/ IssueLink
    \/ FulfillLinkedSession

Spec18 == Init18 /\ [][Next18]_vars

\* C18: the payment link issued for an existing user u and a recognized
\* plan carries cartID = str(u); the fulfillment of a paid session that
\* carries that metadata resolves, by int(cartID), to exactly u; and no
\* user other than u is granted access by it.
C18_CorrelationRoundTrip ==
    /\ (last.op = "create_payment_link" /\ last.status = 200)
        => /\ last.link = Dict("cartID", PyStr(last.user_id))
           /\ PyInt(last.link["cartID"]) = [ok |-> TRUE, val |-> last.user_id]
    /\ last.op = "fulfill_linked_session"
        => /\ Resolves(last.session.metadata, "cartID", last.pre)
           /\ SessionUser = last.user_id
           /\ \A v \in DOMAIN users :
                 FlagWent(v, FALSE, TRUE) => v = last.user_id
           /\ \A v \in DOMAIN users :
                 v # last.user_id => users[v] = last.pre[v]

\* C18, witness: a user with a two-digit id was granted access by the
\* fulfillment of the paid session of the link issued for that user.
C18_Witness ==
    /\ last.op = "fulfill_linked_session"
    /\ last.user_id >= 10
    /\ last.session.payment_status = "paid"
    /\ FlagWent(last.user_id, FALSE, TRUE)

---------------------------------------------------------------------------
(* The handlers on a users table of several users                          *)

\* Every id a correlation key may name has a row here.
FrameUserIds == 1..(MaxUser + 1)

\* Any of the users may hold access.
Init20 ==
    /\ users \in {[u \in FrameUserIds |-> [NewUser(u) EXCEPT !["has_access"] = f[u]]] :
                    f \in [FrameUserIds -> BOOLEAN]}
    /\ tasks = EmptyBag
    /\ last = Idle
    /\ deliveries = NoDeliveries
    /\ provider = NoProvider

\* main.py: a request to /webhooks/stripe with a verified event, and the
\* background task it added, which runs once the request is answered
PostWebhooksStripeAndRun ==
    /\ \E ev \in Events :
        \E resp \in {StripeWebhookMain("ok", ev, users)} :
            /\ resp.scheduled # <<>>
            /\ \E in \in IF resp.handler = "fulfill_order"
                         THEN FulfillInputs ELSE {<<NoSession, "none">>} :
                \E out \in {RunBackgroundTask(resp.scheduled[1], in[1], in[2],
                                              resp.out.table)} :
                    /\ users' = out.table
                    /\ last' = CallRecord("background_task", "main", ev, in[1],
                                           resp.handler, out, users)
    /\ UNCHANGED <<tasks, deliveries, provider>>

Next20 ==
    \/ CallFulfillService
    \/ PostWebhook
    \/ PostWebhooksStripeAndRun

Spec20 == Init20 /\ [][Next20]_vars

\* The user the event of the last step resolves to, 0 if it resolves to none
EventUser ==
    IF Resolves(last.session.metadata, "cartID", last.pre)
    THEN SessionUser
    ELSE IF Resolves(last.event.invoice.metadata, "user_id", last.pre)
    THEN InvoiceUser
    ELSE 0

\* C20: a fulfillment, renewal or failed-payment handler changes at most
\* the access flag of the user its event resolves to: every other user's
\* row, and every other column of every row, is as before, and no row is
\* added or removed.
C20_OnlyTheResolvedUsersFlag ==
    last.op \in {"fulfill_service", "background_task", "stripe_webhook"}
    => /\ DOMAIN users = DOMAIN last.pre
       /\ \A u \in DOMAIN users :
            /\ DOMAIN users[u] = MappedColumns
            /\ \A c \in MappedColumns \ {"has_access"} :
                  users[u][c] = last.pre[u][c]
            /\ u # EventUser => users[u] = last.pre[u]

\* C20, witness: a handler granted access to the user of its event while
\* another user, who held access already, kept it.
C20_Witness ==
    \E u, v \in DOMAIN users :
        /\ u # v
        /\ u = EventUser
        /\ FlagWent(u, FALSE, TRUE)
        /\ FlagWent(v, TRUE, TRUE)

---------------------------------------------------------------------------
(* C21                                                                     *)

\* /webhook of webhook-handler.py handled a verified event that resolves to
\* an existing user, and its handler's commit succeeded.
CommittedByWH ==
    /\ VerifiedRequest
    /\ last.file = "webhook-handler"
    /\ last.handler # "none"
    /\ EventUser \in DOMAIN last.pre
    /\ DbCalled("commit")
    /\ last.fault = "none"

\* C21: in webhook-handler.py the flag follows the last event handled: after
\* any sequence of requests, once a verified event that resolves to an
\* existing user has been handled and committed, that user's persisted
\* access flag is false if and only if the event was invoice.payment_failed
\* (so a checkout or payment-succeeded event handled after a failed payment
\* grants access again, no ledger being consulted).
C21_LastHandledEventDecides ==
    CommittedByWH
    => (~users[EventUser]["has_access"]
            <=> last.event.type = "invoice.payment_failed")

====
